---------------------------- MODULE Spec2Model ----------------------------
(***************************************************************************)
(* Model of glazier's wayland backend: the Window Registry, the shared     *)
(* WindowProperties cells, WindowHandle / IdleHandle operations, the        *)
(* Action Channel and Idle Channel, and the event dispatcher                *)
(* (src/backend/wayland/window.rs, application.rs, mod.rs).                 *)
(*                                                                         *)
(* A Rust panic is modelled as a result: the step that panics stops where  *)
(* the panic is raised, the writes made before it persist, every RefCell   *)
(* guard is released by unwinding, and last.fault names the panic.         *)
(***************************************************************************)
EXTENDS Integers, Sequences, FiniteSets, TLC

(* ------------------------------ bounds -------------------------------- *)
MaxWindows == 2
MaxScale == 2
MaxQueue == 2
MaxIdle == 1
MaxMain == 1
MaxFrames == 2

(* ------------------------- program constants -------------------------- *)
FrameRectMax == 5000

(* --------------------------- identities ------------------------------- *)
\* Windows that were built (each has a WindowState and handles).
Built == 1..MaxWindows
\* A surface identity that was never registered.
Ghost == MaxWindows + 1
Ids == Built \cup {Ghost}

(* ----------------------------- values --------------------------------- *)
None == <<>>
Some(v) == <<v>>
IsSome(o) == o # <<>>
Unwrap(o) == o[1]

RECURSIVE GCD(_, _)
GCD(a, b) == IF b = 0 THEN a ELSE GCD(b, a % b)
\* A length is an exact rational <<numerator, denominator>> in lowest terms.
Rat(n, d) == LET g == GCD(n, d) IN IF g = 0 THEN <<0, 1>> ELSE <<n \div g, d \div g>>
RatLeq(a, b) == a[1] * b[2] <= b[1] * a[2]
Size(w, h) == [width |-> Rat(w, 1), height |-> Rat(h, 1)]
Scale(f) == [x |-> f, y |-> f]

\* Size::to_px / Size::to_dp of crate::scale (multiply / divide by the scale).
to_px(size, scale) ==
    [width |-> Rat(size.width[1] * scale.x, size.width[2]),
     height |-> Rat(size.height[1] * scale.y, size.height[2])]
to_dp(size, scale) ==
    [width |-> Rat(size.width[1], size.width[2] * scale.x),
     height |-> Rat(size.height[1], size.height[2] * scale.y)]

\* Sizes the application builds windows with and passes to set_size.
SmallSize == Size(800, 600)
BigSize == Size(6000, 100)
BuildSize(w) == IF w = 1 THEN SmallSize ELSE BigSize
SetSizes == {Size(640, 480)}

\* Whether the lengths a and b differ by at most one device pixel at a scale
\* factor f (lengths are in logical units).
WithinOnePx(a, b, f) ==
    LET n == f * (a[1] * b[2] - b[1] * a[2])
        d == a[2] * b[2]
    IN  n <= d /\ -n <= d
SizeWithinOnePx(s, t, scale) ==
    /\ WithinOnePx(s.width, t.width, scale.x)
    /\ WithinOnePx(s.height, t.height, scale.y)

\* Rect and Region of kurbo / crate::Region (one rectangle is enough here).
Rect(x0, y0, x1, y1) == [x0 |-> x0, y0 |-> y0, x1 |-> x1, y1 |-> y1]
RegionCovers(region, size) ==
    \E r \in region :
        /\ r.x0 <= 0 /\ r.y0 <= 0
        /\ RatLeq(size.width, <<r.x1, 1>>)
        /\ RatLeq(size.height, <<r.y1, 1>>)

(* ----------------------------- state ---------------------------------- *)
VARIABLES
    windows,    \* WaylandState.windows: the identities in the Registry
    props,      \* the WindowProperties cell of every built window
    actions,    \* Action Channel: messages ActiveAction::Window(id, action)
    idle,       \* Idle Channel: IdleAction values in flight
    frames,     \* outstanding wl_surface.frame requests per surface
    stopped,    \* loop_signal.stop() was called
    removals,   \* per identity: successful Registry removals
    stopEvals,  \* per identity: evaluations of "stop if the Registry is empty"
    phase,      \* where the dispatch thread is: "setup", "dispatch", "drain";
                \* "gone" once the WaylandState and the event loop were dropped
    run_arg,    \* the `_handler` argument Application::run was called with
    last        \* what the most recent step did (calls, result, panic)

vars == <<windows, props, actions, idle, frames, stopped,
          removals, stopEvals, phase, run_arg, last>>

\* The record of a step: the operation, its target, the panic it raised
\* ("none" when it returned), its return value (for a scale-changed event:
\* the size and scale it read from the cell), the handler callbacks it
\* invoked in order, the diagnostics it logged, and the handle operation that
\* panicked inside a callback ("none" when no callback panicked).
Step(kind, w, fault, ret, calls, diag, cb) ==
    [kind |-> kind, w |-> w, fault |-> fault, ret |-> ret, calls |-> calls,
     diag |-> diag, cb |-> cb]

NoProps == [requested_size |-> None, current_size |-> Size(0, 0),
            current_scale |-> Scale(1), wayland_window |-> FALSE]

\* WindowProperties as WindowBuilder::build leaves it for a window of `size`.
WindowProperties(size) ==
    [requested_size |-> None, current_size |-> size,
     current_scale |-> Scale(1), wayland_window |-> TRUE]

Init ==
    /\ windows = Built
    /\ props = [w \in Ids |-> IF w \in Built THEN WindowProperties(BuildSize(w)) ELSE NoProps]
    /\ actions = <<>>
    /\ idle = <<>>
    /\ frames = [w \in Ids |-> 0]
    /\ stopped = FALSE
    /\ removals = [w \in Ids |-> 0]
    /\ stopEvals = [w \in Ids |-> 0]
    /\ phase = "setup"
    /\ run_arg = None
    /\ last = Step("init", 0, "none", None, <<>>, <<>>, "none")

(* ------------------- RefCell guards and results ------------------------ *)
\* The guard on a WindowProperties cell that is live while an operation runs.
NoGuard == [w |-> 0, mode |-> "none"]
Guard(w, mode) == [w |-> w, mode |-> mode]
BorrowState(h, held) == IF held.w = h THEN held.mode ELSE "none"

\* The result of a handle operation; `calls` are the handler callbacks the
\* operation itself invoked (none of the operations invokes any).
Returned(P, Q, ret) ==
    [props |-> P, actions |-> Q, fault |-> "none", ret |-> ret, calls |-> <<>>]
Panicked(P, Q, msg) ==
    [props |-> P, actions |-> Q, fault |-> msg, ret |-> None, calls |-> <<>>]

(* ----------------------------- channels -------------------------------- *)
\* Whether the receiving ends of the channels exist: the Idle Channel's
\* receiver is WaylandState.idle_callbacks and the Action Channel's is a source
\* of the event loop, so both live exactly as long as those two values.
receivers_alive == phase # "gone"

(* -------------------------- WindowHandle ------------------------------- *)
\* Weak::upgrade of WindowHandle.properties: the only Rc of the cell is
\* WindowState.properties, so it succeeds exactly while the WindowState is
\* in the Registry (W).
upgrade(h, W) == h \in W

\* properties(): upgrade().unwrap().borrow(); the panic it raises, or "none".
properties(h, W, held) ==
    IF ~upgrade(h, W) THEN "unwrap on None"
    ELSE IF BorrowState(h, held) = "mut" THEN "already mutably borrowed"
    ELSE "none"

\* properties_mut(): upgrade().unwrap().borrow_mut().
properties_mut(h, W, held) ==
    IF ~upgrade(h, W) THEN "unwrap on None"
    ELSE IF BorrowState(h, held) # "none" THEN "already borrowed"
    ELSE "none"

\* WindowProperties::wayland_window(): expect on the Option.
wayland_window(h, P) ==
    IF P[h].wayland_window THEN "none" ELSE "Shouldn't operate on closed window"

\* id(): the panic raised while computing the identity, or "none" (it is h).
id(h, P, W, held) ==
    LET f == properties(h, W, held)
    IN  IF f # "none" THEN f ELSE wayland_window(h, P)

\* defer(): the argument self.id() is evaluated first, then the message sent;
\* expect() panics on the error send() returns when the receiver is gone.
defer(h, action, P, Q, W, held) ==
    LET f == id(h, P, W, held)
    IN  IF f # "none" THEN Panicked(P, Q, f)
        ELSE IF ~receivers_alive
        THEN Panicked(P, Q, "Running on a window should only occur whilst application is active")
        ELSE Returned(P, Append(Q, [id |-> h, action |-> action]), None)

\* A set_size that applies the size at once instead of deferring it.
set_size_immediate(h, size, P, Q, W, held) ==
    LET f == properties_mut(h, W, held)
    IN  IF f # "none" THEN Panicked(P, Q, f)
        ELSE defer(h, "ResizeRequested",
                   [P EXCEPT ![h].requested_size = Some(size), ![h].current_size = size],
                   Q, W, Guard(h, "mut"))

\* A set_size that applies the size and tells the handler before it returns.
set_size_sync(h, size, P, Q, W, held) ==
    LET f == properties_mut(h, W, held)
    IN  IF f # "none" THEN Panicked(P, Q, f)
        ELSE [Returned([P EXCEPT ![h].requested_size = Some(size),
                                 ![h].current_size = size], Q, None)
                  EXCEPT !.calls = <<<<"size", size>>>>]

\* set_size(): `props` (a RefMut) lives to the end of the function, so it is
\* still held when defer() calls id().
set_size(h, size, P, Q, W, held) ==
    LET f == properties_mut(h, W, held)
    IN  IF f # "none" THEN Panicked(P, Q, f)
        ELSE defer(h, "ResizeRequested",
                   [P EXCEPT ![h].requested_size = Some(size)],
                   Q, W, Guard(h, "mut"))

get_size(h, P, Q, W, held) ==
    LET f == properties(h, W, held)
    IN  IF f # "none" THEN Panicked(P, Q, f)
        ELSE Returned(P, Q, P[h].current_size)

get_scale(h, P, Q, W, held) ==
    LET f == properties(h, W, held)
    IN  IF f # "none" THEN Panicked(P, Q, f)
        ELSE Returned(P, Q, [ok |-> P[h].current_scale])

close(h, P, Q, W, held) == defer(h, "Close", P, Q, W, held)

\* show(): properties(), then wayland_window().commit().
show(h, P, Q, W, held) ==
    LET f == id(h, P, W, held)
    IN  IF f # "none" THEN Panicked(P, Q, f) ELSE Returned(P, Q, None)

\* set_window_state(): properties(), then a request on wayland_window().
set_window_state(h, P, Q, W, held) ==
    LET f == id(h, P, W, held)
    IN  IF f # "none" THEN Panicked(P, Q, f) ELSE Returned(P, Q, None)

\* get_idle_handle(): Some(IdleHandle { window: self.id(), .. }).
get_idle_handle(h, P, Q, W, held) ==
    LET f == id(h, P, W, held)
    IN  IF f # "none" THEN Panicked(P, Q, f) ELSE Returned(P, Q, Some(h))

\* A default handle whose Weak points at the cell of the first built window.
DefaultWeak_bound == CHOOSE w \in Built : \A v \in Built : w <= v

\* WindowHandle::default(): `properties` is Weak::new(), which points at no
\* cell (0 is no window's identity), and both senders belong to channels
\* whose receivers were dropped on the spot.
DefaultWeak == 0

\* A handle operation as application code names it.
Op(name, h, size) == [name |-> name, h |-> h, size |-> size]
NoOp == Op("none", 0, None)
HandleOps ==
    {Op(n, h, None) : n \in {"get_size", "get_scale", "close"}, h \in Built}
    \cup {Op("set_size", h, s) : h \in Built, s \in SetSizes}

HandleOp(op, P, Q, W, held) ==
    CASE op.name = "get_size" -> get_size(op.h, P, Q, W, held)
      [] op.name = "get_scale" -> get_scale(op.h, P, Q, W, held)
      [] op.name = "set_size" -> set_size(op.h, op.size, P, Q, W, held)
      [] op.name = "close" -> close(op.h, P, Q, W, held)
      [] op.name = "show" -> show(op.h, P, Q, W, held)
      [] op.name = "set_window_state" -> set_window_state(op.h, P, Q, W, held)
      [] op.name = "get_idle_handle" -> get_idle_handle(op.h, P, Q, W, held)
      [] OTHER -> Returned(P, Q, None)

(* ------------ handle operations called outside a callback ------------- *)
\* The application calls a handle operation while no callback of the
\* window's handler is running, so the dispatcher holds no guard on its cell.
HandleCall(op) ==
    /\ LET r == HandleOp(op, props, actions, windows, NoGuard)
       IN  /\ Len(r.actions) <= MaxQueue
           /\ props' = r.props
           /\ actions' = r.actions
           /\ last' = Step(op.name, op.h, r.fault, r.ret, r.calls, <<>>, "none")
    /\ UNCHANGED <<windows, idle, frames, stopped, removals,
                   stopEvals, phase, run_arg>>

SetSize == \E h \in Built, s \in SetSizes : HandleCall(Op("set_size", h, s))
GetSize == \E h \in Built : HandleCall(Op("get_size", h, None))
GetScale == \E h \in Built : HandleCall(Op("get_scale", h, None))
Close == \E h \in Built : HandleCall(Op("close", h, None))

\* The operations of the public contract called on a default handle.
DefaultOpNames ==
    {"show", "get_size", "get_scale", "close", "get_idle_handle",
     "set_window_state", "set_size"}
DefaultOps ==
    {Op(n, DefaultWeak, None) : n \in DefaultOpNames \ {"set_size"}}
    \cup {Op("set_size", DefaultWeak, s) : s \in SetSizes}
DefaultHandleOp == \E op \in DefaultOps : HandleCall(op)

\* get_idle_handle(): Some(IdleHandle { window: self.id(), .. }).
GetIdleHandle ==
    \E h \in Built :
        /\ LET f == id(h, props, windows, NoGuard)
           IN  last' = Step("get_idle_handle", h, f,
                               IF f = "none" THEN Some(h) ELSE None,
                               <<>>, <<>>, "none")
        /\ UNCHANGED <<windows, props, actions, idle, frames, stopped, removals,
                       stopEvals, phase, run_arg>>

(* ---------------------------- IdleHandle ------------------------------- *)
\* How many values of the given kinds are in flight on the Idle Channel.
InFlight(kinds) == Cardinality({i \in 1..Len(idle) : idle[i].kind \in kinds})

\* add_idle_callback() on the IdleHandle of a built window (obtained while the
\* window was alive): the closure captures the identity, not the state; the
\* result of send() is dropped. IdleHandle is Send: any thread, any time.
AddIdleCallback ==
    \E w \in Built :
        /\ InFlight({"Callback", "Token"}) < MaxIdle
        /\ idle' = IF receivers_alive
                   THEN Append(idle, [kind |-> "Callback", window |-> w])
                   ELSE idle
        /\ last' = Step("add_idle_callback", w, "none", None, <<>>, <<>>, "none")
        /\ UNCHANGED <<windows, props, actions, frames, stopped,
                       removals, stopEvals, phase, run_arg>>

\* add_idle_token(): the error of send() is logged with tracing::warn!.
AddIdleToken ==
    \E w \in Built :
        /\ InFlight({"Callback", "Token"}) < MaxIdle
        /\ idle' = IF receivers_alive
                   THEN Append(idle, [kind |-> "Token", window |-> w])
                   ELSE idle
        /\ last' = Step("add_idle_token", w, "none", None, <<>>,
                        IF receivers_alive THEN <<>>
                        ELSE <<"Requested idle on invalid application">>,
                        "none")
        /\ UNCHANGED <<windows, props, actions, frames, stopped,
                       removals, stopEvals, phase, run_arg>>

(* ----------------------------- AppHandle ------------------------------- *)
\* run_on_main() / run_on_main_inner(): send(..).expect(..), then wakeup().
\* AppHandle is Send and outlives the Application it was taken from.
RunOnMain ==
    /\ InFlight({"Main"}) < MaxMain
    /\ idle' = IF receivers_alive
               THEN Append(idle, [kind |-> "Main", window |-> 0])
               ELSE idle
    /\ last' = Step("run_on_main", 0,
                    IF receivers_alive THEN "none"
                    ELSE "AppHandle should exist whilst",
                    None, <<>>, <<>>, "none")
    /\ UNCHANGED <<windows, props, actions, frames, stopped,
                   removals, stopEvals, phase, run_arg>>

(* ------------------ handler callbacks of the dispatcher ---------------- *)
\* What the application does inside the callbacks of one dispatcher step: at
\* most one handle operation, inside callback number `at` (0: nothing).
\* The handler of window w calls the operation on the handle of its window.
CbInputs(w, n) ==
    {[at |-> 0, op |-> NoOp]}
    \cup {[at |-> i, op |-> o] : i \in 1..n, o \in {x \in HandleOps : x.h = w}}

\* The dispatcher invokes the handler callbacks `calls` in order; helds[i] is
\* the guard the dispatcher holds while callback i runs. A panic inside a
\* callback unwinds through the dispatcher: the later callbacks are not made.
\* Handler callbacks a handle operation invokes while callback cb.at runs are
\* re-entrant; they are recorded where they happen, tagged "reentrant".
Reentrant(cs) == [i \in 1..Len(cs) |-> <<"reentrant">> \o cs[i]]

\* The callbacks made when the handle operation of callback cb.at ended as r.
CallbackResult(r, calls, cb) ==
    [props |-> r.props, actions |-> r.actions, fault |-> r.fault,
     calls |-> SubSeq(calls, 1, cb.at) \o Reentrant(r.calls)
               \o (IF r.fault = "none" THEN SubSeq(calls, cb.at + 1, Len(calls))
                   ELSE <<>>),
     cb |-> IF r.fault = "none" THEN "none" ELSE cb.op.name]

Callbacks(calls, helds, cb, P, Q, W) ==
    IF cb.at \in 1..Len(calls)
    THEN CallbackResult(HandleOp(cb.op, P, Q, W, helds[cb.at]), calls, cb)
    ELSE [props |-> P, actions |-> Q, fault |-> "none", calls |-> calls,
          cb |-> "none"]

(* -------------------- CompositorHandler / WindowHandler ---------------- *)
\* A rescale that converts the size but forgets to store the new scale.
rescale_keep_scale(p, scale) ==
    [p EXCEPT !.current_size = to_dp(to_px(p.current_size, p.current_scale), scale)]

\* The inner block of scale_factor_changed(): the size goes to device pixels
\* at the old scale and back to logical units at the new one; both fields of
\* the cell p are written.
rescale(p, scale) ==
    [p EXCEPT !.current_scale = scale,
              !.current_size = to_dp(to_px(p.current_size, p.current_scale), scale)]

\* The handler calls in the opposite order.
scale_calls_swapped(scale, new_size) == <<<<"size", new_size>>, <<"scale", scale>>>>

\* The handler calls scale_factor_changed() makes after the inner block.
scale_calls(scale, new_size) == <<<<"scale", scale>>, <<"size", new_size>>>>

\* scale_factor_changed(): expect() on the lookup; the guard on the cell is
\* dropped at the end of the inner block, before the handler is called.
ScaleFactorChanged(w, new_factor, cb) ==
    /\ phase = "dispatch"
    /\ IF w \notin windows
       THEN /\ last' = Step("scale_factor_changed", w,
                            "Should only get events for real windows", None,
                            <<>>, <<>>, "none")
            /\ UNCHANGED <<props, actions>>
       ELSE LET scale == Scale(new_factor)
                P1 == [props EXCEPT ![w] = rescale(props[w], scale)]
                r == Callbacks(scale_calls(scale, P1[w].current_size),
                               <<NoGuard, NoGuard>>, cb, P1, actions, windows)
            IN  /\ Len(r.actions) <= MaxQueue
                /\ props' = r.props
                /\ actions' = r.actions
                /\ last' = Step("scale_factor_changed", w, r.fault,
                                Some([size |-> props[w].current_size,
                                      scale |-> props[w].current_scale]),
                                r.calls, <<>>, r.cb)
    /\ UNCHANGED <<windows, idle, frames, stopped, removals,
                   stopEvals, phase, run_arg>>

\* The region frame() passes to paint().
FrameRegion == {Rect(0, 0, FrameRectMax, FrameRectMax)}

\* frame(): the frame callback of surface w is delivered (it is one-shot, so
\* one outstanding request, if any, is consumed).
Frame(w, cb) ==
    /\ phase = "dispatch"
    /\ frames' = [frames EXCEPT ![w] = IF @ > 0 THEN @ - 1 ELSE 0]
    /\ IF w \notin windows
       THEN /\ last' = Step("frame", w, "none", None, <<>>, <<>>, "none")
            /\ UNCHANGED <<props, actions>>
       ELSE LET r == Callbacks(<<<<"prepare_paint">>, <<"paint", FrameRegion>>>>,
                               <<NoGuard, NoGuard>>, cb, props, actions, windows)
            IN  /\ Len(r.actions) <= MaxQueue
                /\ props' = r.props
                /\ actions' = r.actions
                /\ last' = Step("frame", w, r.fault, None, r.calls, <<>>, r.cb)
    /\ UNCHANGED <<windows, idle, stopped, removals, stopEvals, phase, run_arg>>

\* request_close(): forwards to the handler.
\* A request-close that also asks for the window to be closed.
RequestClose_closing(w, cb) ==
    /\ phase = "dispatch"
    /\ Len(actions) < MaxQueue
    /\ actions' = Append(actions, [id |-> w, action |-> "Close"])
    /\ last' = Step("request_close", w, "none", None,
                    IF w \in windows THEN <<<<"request_close">>>> ELSE <<>>,
                    <<>>, "none")
    /\ UNCHANGED <<windows, props, idle, frames, stopped, removals,
                   stopEvals, phase, run_arg>>

RequestClose(w, cb) ==
    /\ phase = "dispatch"
    /\ IF w \notin windows
       THEN /\ last' = Step("request_close", w, "none", None, <<>>, <<>>, "none")
            /\ UNCHANGED <<props, actions>>
       ELSE LET r == Callbacks(<<<<"request_close">>>>, <<NoGuard>>, cb,
                               props, actions, windows)
            IN  /\ Len(r.actions) <= MaxQueue
                /\ props' = r.props
                /\ actions' = r.actions
                /\ last' = Step("request_close", w, r.fault, None, r.calls, <<>>,
                                r.cb)
    /\ UNCHANGED <<windows, idle, frames, stopped, removals,
                   stopEvals, phase, run_arg>>

\* configure(): resolves the WindowState and does nothing with it.
Configure(w) ==
    /\ phase = "dispatch"
    /\ last' = Step("configure", w, "none", None, <<>>, <<>>, "none")
    /\ UNCHANGED <<windows, props, actions, idle, frames, stopped,
                   removals, stopEvals, phase, run_arg>>

(* ---------------------------- WindowAction ----------------------------- *)
\* A resize that forgets to request the frame callback.
surface_frame_none(F, w) == F

\* surface.frame(): one more frame callback is requested for the surface.
surface_frame(F, w) == [F EXCEPT ![w] = @ + 1]

\* A Close that stops the loop whenever a window is removed.
stop_always(W) == TRUE

\* state.windows.is_empty() after the removal: whether loop_signal.stop() runs.
stop_if_empty(W) == W = {}

RunResult(W, P, Q, F, stop, removed, fault, calls, diag, cb) ==
    [windows |-> W, props |-> P, actions |-> Q, frames |-> F, stop |-> stop,
     removed |-> removed, fault |-> fault, calls |-> calls, diag |-> diag,
     cb |-> cb]

\* WindowAction::run, arm ResizeRequested. The RefMut `props` is live until
\* the end of the inner block, so it is held while handler.size() runs.
ResizeRequested(window_id, cb, W, P, Q, F) ==
    IF window_id \notin W
    THEN RunResult(W, P, Q, F, FALSE, FALSE, "none", <<>>, <<>>, "none")
    ELSE IF ~IsSome(P[window_id].requested_size)
    THEN RunResult(W, P, Q, F, FALSE, FALSE, "Can't unset requested size",
                   <<>>, <<>>, "none")
    ELSE LET size == Unwrap(P[window_id].requested_size)
             P1 == [P EXCEPT ![window_id].current_size = size]
             r == Callbacks(<<<<"size", size>>>>, <<Guard(window_id, "mut")>>,
                            cb, P1, Q, W)
         IN  RunResult(W, r.props, r.actions,
                       IF r.fault = "none" THEN surface_frame(F, window_id) ELSE F,
                       FALSE, FALSE, r.fault, r.calls, <<>>, r.cb)

\* A Close arm whose properties cell outlives the WindowState (as it would if
\* handles held an Rc): the cell keeps its wayland_window.
CloseWindow_keep(window_id, W, P, Q, F) ==
    IF window_id \notin W
    THEN RunResult(W, P, Q, F, FALSE, FALSE, "none", <<>>,
                   <<"Tried to close the same window twice">>, "none")
    ELSE LET W1 == W \ {window_id}
         IN  RunResult(W1, P, Q, F, stop_if_empty(W1), TRUE, "none", <<>>, <<>>,
                       "none")

\* WindowAction::run, arm Close. The removed WindowState is dropped at the end
\* of the arm, and with it the last Rc of the properties cell.
CloseWindow(window_id, W, P, Q, F) ==
    IF window_id \notin W
    THEN RunResult(W, P, Q, F, FALSE, FALSE, "none", <<>>,
                   <<"Tried to close the same window twice">>, "none")
    ELSE LET W1 == W \ {window_id}
         IN  RunResult(W1, [P EXCEPT ![window_id] = NoProps], Q, F,
                       stop_if_empty(W1), TRUE, "none", <<>>, <<>>, "none")

run(action, window_id, cb, W, P, Q, F) ==
    IF action = "ResizeRequested"
    THEN ResizeRequested(window_id, cb, W, P, Q, F)
    ELSE CloseWindow(window_id, W, P, Q, F)

WindowActions == {"ResizeRequested", "Close"}

\* The dispatcher runs the message (window_id, action); Q is the Action
\* Channel as the message's run finds it.
Dispatch(action, window_id, cb, Q) ==
    LET r == run(action, window_id, cb, windows, props, Q, frames)
    IN  /\ Len(r.actions) <= MaxQueue
        /\ r.frames[window_id] <= MaxFrames
        /\ windows' = r.windows
        /\ props' = r.props
        /\ actions' = r.actions
        /\ frames' = r.frames
        /\ stopped' = (stopped \/ r.stop)
        /\ removals' = [removals EXCEPT ![window_id] = IF r.removed THEN @ + 1 ELSE @]
        /\ stopEvals' = [stopEvals EXCEPT ![window_id] = IF r.removed THEN @ + 1 ELSE @]
        /\ last' = Step(action, window_id, r.fault, None, r.calls, r.diag, r.cb)
        /\ UNCHANGED <<idle, phase, run_arg>>

\* The Action Channel's consumer: the oldest message is received and run.
PumpAction ==
    /\ phase = "dispatch"
    /\ actions # <<>>
    /\ \E cb \in CbInputs(Head(actions).id, 1) :
           Dispatch(Head(actions).action, Head(actions).id, cb, Tail(actions))

(* --------------------------- Application ------------------------------- *)
\* A state slot that never reports the state as taken.
state_taken_never(ph) == FALSE

\* Whether Application.state holds None: run() take()s the WaylandState out
\* of the slot all clones share, and nothing puts one back.
state_taken(ph) == ph # "setup"

\* WaylandState.handler: Application::new stores None and nothing assigns it
\* (run() does not use its `_handler` argument).
state_handler == None

\* An application handler as passed to Application::run.
AppHandlers == {"app_handler"}

\* Application::run(handler) while the state is in its slot: the state is
\* taken and the event loop starts dispatching.
RunWith(handler) ==
    /\ ~state_taken(phase)
    /\ phase' = "dispatch"
    /\ run_arg' = handler
    /\ last' = Step("run", 0, "none", None, <<>>, <<>>, "none")
    /\ UNCHANGED <<windows, props, actions, idle, frames, stopped,
                   removals, stopEvals>>

Run == \E h \in AppHandlers : RunWith(Some(h))
RunBare == RunWith(None)

\* Application::run on the Application or a clone of it after an earlier run
\* (Application is not Send, so the call comes from a callback the running
\* loop is making, or after a panic unwound the first run): expect() panics
\* when take() returns None.
RunClone ==
    /\ phase # "setup"
    /\ IF state_taken(phase)
       THEN /\ last' = Step("run", 0, "Can only run an application once", None,
                            <<>>, <<>>, "none")
            /\ UNCHANGED phase
       ELSE /\ phase' = "dispatch"
            /\ last' = Step("run", 0, "none", None, <<>>, <<>>, "none")
    /\ UNCHANGED <<windows, props, actions, idle, frames, stopped,
                   removals, stopEvals, run_arg>>

\* The WaylandState and the event loop are dropped: the Application is
\* dropped without having been run (its `state` Rc is the owner), or a panic
\* on the dispatch thread unwinds run(), whose locals `state` and
\* `event_loop` own them. The Registry, the properties cells it owns and the
\* receivers of both channels (with the messages in them) go with them.
Teardown ==
    /\ \/ phase = "setup"
       \/ phase \in {"dispatch", "drain"} /\ last.fault # "none"
    /\ phase' = "gone"
    /\ windows' = {}
    /\ props' = [w \in Ids |-> NoProps]
    /\ actions' = <<>>
    /\ idle' = <<>>
    /\ frames' = [w \in Ids |-> 0]
    /\ last' = Step("teardown", 0, "none", None, <<>>, <<>>, "none")
    /\ UNCHANGED <<stopped, removals, stopEvals, run_arg>>

\* The event loop has dispatched its sources and calls the closure given to
\* event_loop.run, which drains the Idle Channel.
EnterDrain ==
    /\ phase = "dispatch"
    /\ phase' = "drain"
    /\ last' = Step("drain", 0, "none", None, <<>>, <<>>, "none")
    /\ UNCHANGED <<windows, props, actions, idle, frames, stopped,
                   removals, stopEvals, run_arg>>

\* What an idle closure leaves behind when its callbacks ended as r.
IdleResult(r) ==
    [props |-> r.props, actions |-> r.actions, fault |-> r.fault,
     calls |-> r.calls, diag |-> <<>>, cb |-> r.cb]

\* A closure that captured the WindowState when it was scheduled: it runs the
\* user callback whether or not the window is still registered.
IdleCallback_captured(window, cb, W, P, Q) ==
    IdleResult(Callbacks(<<<<"idle_callback">>>>, <<NoGuard>>, cb, P, Q, W))

\* The closure IdleHandle::add_idle_state_callback sends: it looks the window
\* up when it runs.
IdleCallback(window, cb, W, P, Q) ==
    IF window \in W
    THEN IdleResult(Callbacks(<<<<"idle_callback">>>>, <<NoGuard>>, cb, P, Q, W))
    ELSE [props |-> P, actions |-> Q, fault |-> "none", calls |-> <<>>,
          diag |-> <<"Ran add_idle_callback on a window which no longer exists">>,
          cb |-> "none"]

\* The closure AppHandle::run_on_main_inner sends: it calls the user callback
\* with state.handler.as_mut().
MainCallback(cb, W, P, Q) ==
    IdleResult(Callbacks(<<<<"main_callback", state_handler>>>>, <<NoGuard>>, cb, P, Q, W))

\* Delivery of IdleAction::Token(window, token): the handler's idle(token) is
\* called when the window is registered.
IdleToken(window, cb, W, P, Q) ==
    IF window \in W
    THEN IdleResult(Callbacks(<<<<"idle">>>>, <<NoGuard>>, cb, P, Q, W))
    ELSE [props |-> P, actions |-> Q, fault |-> "none", calls |-> <<>>,
          diag |-> <<>>, cb |-> "none"]

\* What running one value taken off the Idle Channel does.
IdleAction(item, cb, W, P, Q) ==
    CASE item.kind = "Callback" -> IdleCallback(item.window, cb, W, P, Q)
      [] item.kind = "Main" -> MainCallback(cb, W, P, Q)
      [] OTHER -> IdleToken(item.window, cb, W, P, Q)

\* A receiver that hands out the newest value first.
try_recv_newest(q) == [item |-> q[Len(q)], rest |-> SubSeq(q, 1, Len(q) - 1)]

\* Receiver::try_recv() on a non-empty channel: the oldest value.
try_recv(q) == [item |-> Head(q), rest |-> Tail(q)]

\* try_recv() returns Ok(cb): the callback is taken off the channel and run.
DrainIdle ==
    /\ phase = "drain"
    /\ idle # <<>>
    /\ LET item == try_recv(idle).item IN
       \E cb \in CbInputs(item.window, 1) :
           LET r == IdleAction(item, cb, windows, props, actions)
           IN  /\ Len(r.actions) <= MaxQueue
               /\ props' = r.props
               /\ actions' = r.actions
               /\ last' = Step("idle", item.window, r.fault, None, r.calls,
                               r.diag, r.cb)
    /\ idle' = try_recv(idle).rest
    /\ UNCHANGED <<windows, frames, stopped, removals, stopEvals, phase, run_arg>>

\* try_recv() returns Err(Empty): the arm is `()` and the `loop` goes round.
DrainEmpty ==
    /\ phase = "drain"
    /\ idle = <<>>
    /\ phase' = "drain"
    /\ last' = Step("try_recv_empty", 0, "none", None, <<>>, <<>>, "none")
    /\ UNCHANGED <<windows, props, actions, idle, frames, stopped,
                   removals, stopEvals, run_arg>>

(* --------------------------- specification ----------------------------- *)
ScaleEvent ==
    \E w \in Ids, f \in 1..MaxScale : \E cb \in CbInputs(w, 2) : ScaleFactorChanged(w, f, cb)
FrameEvent == \E w \in Ids : \E cb \in CbInputs(w, 2) : Frame(w, cb)
RequestCloseEvent == \E w \in Ids : \E cb \in CbInputs(w, 1) : RequestClose(w, cb)
ConfigureEvent == \E w \in Ids : Configure(w)

Next ==
    \/ SetSize
    \/ GetSize
    \/ GetScale
    \/ Close
    \/ GetIdleHandle
    \/ AddIdleCallback
    \/ Run
    \/ ScaleEvent
    \/ FrameEvent
    \/ RequestCloseEvent
    \/ ConfigureEvent
    \/ PumpAction
    \/ EnterDrain
    \/ DrainIdle
    \/ DrainEmpty

Spec == Init /\ [][Next]_vars

\* The dispatcher's resize path against every input it admits: every message
\* ActiveAction::Window(id, action), for any identity and any action, with
\* set_size recording the requested sizes and frame events arriving.
DeliverAction ==
    /\ phase = "dispatch"
    /\ \E a \in WindowActions, w \in Ids : \E cb \in CbInputs(w, 1) : Dispatch(a, w, cb, actions)

NextDispatch ==
    \/ SetSize
    \/ Run
    \/ FrameEvent
    \/ PumpAction
    \/ DeliverAction

DispatchSpec == Init /\ [][NextDispatch]_vars

\* The producers of both channels against the lifetime of the consuming side.
NextTeardown ==
    \/ SetSize
    \/ Close
    \/ AddIdleCallback
    \/ AddIdleToken
    \/ RunOnMain
    \/ Run
    \/ Teardown

TeardownSpec == Init /\ [][NextTeardown]_vars

\* Everything that writes or reports a window's geometry: set_size, the
\* scale-changed event and a ResizeRequested message run by the dispatcher,
\* for built windows whose handler calls no handle operation in its callbacks.
ScaleChange ==
    \E w \in Built, f \in 1..MaxScale : ScaleFactorChanged(w, f, [at |-> 0, op |-> NoOp])
ResizeApply ==
    /\ phase = "dispatch"
    /\ \E w \in Built : Dispatch("ResizeRequested", w, [at |-> 0, op |-> NoOp], actions)

NextGeometry ==
    \/ SetSize
    \/ Run
    \/ ScaleChange
    \/ ResizeApply

GeometrySpec == Init /\ [][NextGeometry]_vars

\* The dispatch thread and the threads that feed its Idle Channel: the three
\* producers, run() with and without a handler and on a clone, a request-close
\* event whose handler calls nothing back, and the loop's drain.
RequestCloseOnly ==
    \E w \in Ids : RequestClose(w, [at |-> 0, op |-> NoOp])

NextThreads ==
    \/ AddIdleCallback
    \/ AddIdleToken
    \/ RunOnMain
    \/ Run
    \/ RunBare
    \/ RunClone
    \/ RequestCloseOnly
    \/ EnterDrain
    \/ DrainIdle
    \/ DrainEmpty

ThreadsSpec == Init /\ [][NextThreads]_vars

\* A default handle used next to the handles of real windows.
NextDefault ==
    \/ DefaultHandleOp
    \/ Close
    \/ GetSize
    \/ Run
    \/ PumpAction

DefaultSpec == Init /\ [][NextDefault]_vars

\* Both channels with their producers and the dispatch thread, which is
\* scheduled fairly: the event loop is started, it dispatches a ready channel
\* source on every iteration it makes (strong fairness: the source is ready
\* whenever the loop dispatches and the channel is non-empty), it calls the
\* closure after dispatching, and the closure takes each Ok(cb) it receives.
NextLive ==
    \/ Close
    \/ AddIdleCallback
    \/ Run
    \/ PumpAction
    \/ EnterDrain
    \/ DrainIdle
    \/ DrainEmpty

LiveSpec ==
    /\ Init
    /\ [][NextLive]_vars
    /\ WF_vars(Run)
    /\ SF_vars(PumpAction)
    /\ WF_vars(EnterDrain)
    /\ WF_vars(DrainIdle)
    /\ WF_vars(DrainEmpty)

(* ------------------------------ claims --------------------------------- *)
EventKinds == {"scale_factor_changed", "frame", "request_close", "configure"}

\* C1: deferred apply. A set_size(s) call leaves current_size as it was, and
\* get_size() returns the current_size of the state it is called in; so a
\* get_size() that follows set_size(s) returns the size from before the call,
\* not s.
C1_DeferredApply ==
    [][/\ (last'.kind = "set_size"
              => props'[last'.w].current_size = props[last'.w].current_size)
       /\ (last'.kind = "get_size" /\ last'.fault = "none"
              => last'.ret = props[last'.w].current_size)]_vars

\* set_size(s) was called for the window and the get_size() that follows
\* returned a size other than s.
C1_Witness ==
    /\ last.kind = "get_size"
    /\ last.fault = "none"
    /\ IsSome(props[last.w].requested_size)
    /\ Unwrap(props[last.w].requested_size) # last.ret

\* C2: once the dispatch thread has pumped the Action Channel empty, every
\* registered window that set_size(s) was called for reports get_size() = s.
C2_AppliedAfterPump ==
    \A w \in windows :
        (phase = "drain" /\ actions = <<>> /\ IsSome(props[w].requested_size))
            => props[w].current_size = Unwrap(props[w].requested_size)

\* C3: closing a window twice removes it from the Registry once, evaluates
\* "stop if empty" once, and no close() call panics.
C3_DoubleClose ==
    /\ \A w \in Ids : removals[w] <= 1 /\ stopEvals[w] <= 1
    /\ (last.kind = "close" => last.fault = "none")

\* C4: an idle callback resolves its window when it is executed. Taken off the
\* Idle Channel, it runs the user callback once when the window is registered
\* at that moment, and otherwise runs nothing, logs a diagnostic and does not
\* panic; either way it is consumed.
C4_IdleLateLookup ==
    [][last'.kind = "idle" =>
          /\ Len(idle') = Len(idle) - 1
          /\ last'.w = Head(idle).window
          /\ IF Head(idle).window \in windows
             THEN last'.calls = <<<<"idle_callback">>>> /\ last'.diag = <<>>
             ELSE /\ last'.calls = <<>>
                  /\ last'.diag # <<>>
                  /\ last'.fault = "none"]_vars

\* An idle callback was drained for a window whose Close had been processed.
C4_Witness ==
    /\ last.kind = "idle"
    /\ removals[last.w] = 1
    /\ last.calls = <<>>
    /\ last.diag # <<>>

\* C5: every surface has at most one outstanding frame-callback request.
C5_FrameCoalescing == \A w \in Ids : frames[w] <= 1

\* C6: a step that removes a window from the Registry signals the loop to stop
\* exactly when the Registry is empty afterwards, and no other step signals it.
C6_StopOnLastClose ==
    [][IF windows' # windows
       THEN stopped' = (stopped \/ windows' = {})
       ELSE stopped' = stopped]_vars

\* The last registered window was closed and the loop was signalled to stop.
C6_Witness ==
    /\ last.kind = "Close"
    /\ windows = {}
    /\ stopped
    /\ \A w \in Built : removals[w] = 1

\* C7: an event or deferred action whose target is not in the Registry invokes
\* no handler method and does not panic (a Close that misses logs).
C7_UnknownTarget ==
    /\ (last.kind \in EventKinds \cup {"ResizeRequested"} /\ last.w \notin windows)
           => last.fault = "none" /\ last.calls = <<>>
    /\ (last.kind = "Close" /\ last.diag # <<>>)
           => last.fault = "none" /\ last.calls = <<>>

\* C8: a frame event for a registered window invokes prepare_paint() and then
\* paint(region), once each, with a region that covers the window's size.
C8_FramePaintsAll ==
    (last.kind = "frame" /\ last.w \in windows /\ last.fault = "none")
        => /\ Len(last.calls) = 2
           /\ last.calls[1] = <<"prepare_paint">>
           /\ last.calls[2][1] = "paint"
           /\ RegionCovers(last.calls[2][2], props[last.w].current_size)

\* C9: get_size, get_scale and close on the window's own handle, called from
\* inside a handler callback the dispatcher is running for that window, do not
\* panic (the dispatcher holds no guard on the cell while the callback runs).
C9_ReentrantHandleOps ==
    last.cb \in {"get_size", "get_scale", "close"} => last.fault = "none"

\* C10: get_scale() never panics: it returns Ok(current_scale) while the
\* window is alive and an error value once it was destroyed.
C10_GetScaleTotal ==
    last.kind = "get_scale" =>
        /\ last.fault = "none"
        /\ (last.w \in windows => last.ret = [ok |-> props[last.w].current_scale])

\* C11: get_idle_handle() never panics: it returns an IdleHandle bound to the
\* window's identity while the window is registered, and none once the
\* window's properties can no longer be resolved.
C11_IdleHandleTotal ==
    last.kind = "get_idle_handle" =>
        /\ last.fault = "none"
        /\ last.ret = IF last.w \in windows THEN Some(last.w) ELSE None

\* C12: a producer operation called after the consuming side of the channels
\* is gone does not panic.
C12_SendFailureSwallowed ==
    (phase = "gone" /\ last.kind \in {"set_size", "close", "add_idle_callback",
                                      "add_idle_token", "run_on_main"})
        => last.fault = "none"

\* C13: a default-constructed handle is inert. It never resolves to a window,
\* and an operation on it either fails loudly or does nothing: it enqueues
\* nothing on either channel and changes neither the Registry nor any
\* window's properties.
C13_DefaultInert ==
    [][(last'.kind \in DefaultOpNames /\ last'.w = DefaultWeak) =>
          /\ ~upgrade(DefaultWeak, windows)
          /\ actions' = actions
          /\ idle' = idle
          /\ windows' = windows
          /\ props' = props
          /\ frames' = frames]_vars

\* close() was called on a default handle while a real window's Close was
\* waiting in the Action Channel: it failed and the channel kept its message.
C13_Witness ==
    /\ last.kind = "close"
    /\ last.w = DefaultWeak
    /\ last.fault # "none"
    /\ Len(actions) = 1
    /\ windows = Built

\* C14: what is enqueued is eventually consumed. Whenever a message waits on
\* the Action Channel the dispatch thread eventually runs a message, and a
\* callback waiting on the Idle Channel is eventually taken off it.
C14_EventuallyConsumed ==
    /\ (actions # <<>>) ~> (last.kind \in WindowActions)
    /\ (idle # <<>>) ~> (idle = <<>>)

\* C15: the step that processes a window's Close releases the protocol window
\* held by its properties cell (wayland_window is none from then on), whatever
\* handles to the window still exist.
C15_InertOnClose ==
    \A w \in Built : w \notin windows => ~props[w].wayland_window

\* The Close of a window was just processed; handles to it still exist (the
\* other window is still registered, so the application is still running).
C15_Witness ==
    /\ last.kind = "Close"
    /\ removals[last.w] = 1
    /\ last.w \notin windows
    /\ windows # {}
    /\ ~props[last.w].wayland_window

\* C16: scale-change round trip. When a scale-changed event for a registered
\* window is directly followed by a scale-changed event for it whose factor
\* is the scale the window had before the first one, current_size is back at
\* the size it had before the first one, to within one device pixel.
C16_ScaleRoundTrip ==
    [][(/\ last.kind = "scale_factor_changed" /\ IsSome(last.ret)
        /\ last'.kind = "scale_factor_changed" /\ IsSome(last'.ret)
        /\ last'.w = last.w
        /\ last'.calls # <<>>
        /\ last'.calls[1] = <<"scale", Unwrap(last.ret).scale>>)
       => SizeWithinOnePx(props'[last.w].current_size, Unwrap(last.ret).size,
                          Unwrap(last.ret).scale)]_vars

\* A window built at scale 1 went to scale 2 and an event has now brought it
\* back to scale 1, with the size it was built with.
C16_Witness ==
    /\ last.kind = "scale_factor_changed"
    /\ IsSome(last.ret)
    /\ Unwrap(last.ret).scale = Scale(2)
    /\ Unwrap(last.ret).size # BuildSize(last.w)
    /\ props[last.w].current_scale = Scale(1)
    /\ props[last.w].current_size = BuildSize(last.w)

\* C17: a scale-changed event for a registered window writes the cell first
\* (current_scale is the new scale, current_size the old size taken to device
\* pixels at the old scale and back to logical units at the new scale; the
\* write stands even when a callback panics afterwards) and then calls the
\* handler's scale(new scale) once and size(new size) once, in that order.
C17_ScaleThenSize ==
    [][(last'.kind = "scale_factor_changed" /\ last'.w \in windows) =>
          \E f \in 1..MaxScale :
              LET w == last'.w
                  new_size == to_dp(to_px(props[w].current_size,
                                          props[w].current_scale), Scale(f))
              IN  /\ props'[w].current_scale = Scale(f)
                  /\ props'[w].current_size = new_size
                  /\ last'.calls # <<>>
                  /\ last'.calls[1] = <<"scale", Scale(f)>>
                  /\ last'.fault = "none" =>
                         last'.calls = <<<<"scale", Scale(f)>>, <<"size", new_size>>>>]_vars

\* A scale-changed event changed a registered window's scale and size and
\* both handler calls were made.
C17_Witness ==
    /\ last.kind = "scale_factor_changed"
    /\ last.w \in windows
    /\ last.fault = "none"
    /\ Len(last.calls) = 2
    /\ Unwrap(last.ret).scale # props[last.w].current_scale
    /\ Unwrap(last.ret).size # props[last.w].current_size

\* C18: a ResizeRequested that was applied to a registered window leaves
\* requested_size none (the request is consumed).
C18_RequestConsumed ==
    (last.kind = "ResizeRequested" /\ last.w \in windows /\ last.fault = "none")
        => ~IsSome(props[last.w].requested_size)

\* C19: a ResizeRequested for a registered window with a requested size s
\* copies s into current_size, then calls the handler's size(s), then requests
\* one frame callback for the surface (so a panic inside size() leaves the
\* copy made and the frame not requested); with no requested size it panics,
\* changes nothing and calls nothing.
C19_ResizeApplyOrder ==
    [][(last'.kind = "ResizeRequested" /\ last'.w \in windows) =>
          LET w == last'.w IN
          IF IsSome(props[w].requested_size)
          THEN /\ props'[w].current_size = Unwrap(props[w].requested_size)
               /\ last'.calls = <<<<"size", Unwrap(props[w].requested_size)>>>>
               /\ frames' = IF last'.fault = "none"
                            THEN [frames EXCEPT ![w] = @ + 1]
                            ELSE frames
          ELSE /\ last'.fault = "Can't unset requested size"
               /\ last'.calls = <<>>
               /\ props' = props
               /\ frames' = frames]_vars

\* A ResizeRequested was applied: the size changed to the requested one, the
\* handler was told and a frame callback is outstanding.
C19_Witness ==
    /\ last.kind = "ResizeRequested"
    /\ last.w \in windows
    /\ last.fault = "none"
    /\ last.calls = <<<<"size", props[last.w].current_size>>>>
    /\ props[last.w].current_size \in SetSizes
    /\ frames[last.w] >= 1

\* The argument of the last call of `method` in a step's handler calls.
RECURSIVE LastArg(_, _)
LastArg(calls, method) ==
    IF calls = <<>> THEN None
    ELSE IF calls[Len(calls)][1] = method THEN Some(calls[Len(calls)][2])
    ELSE LastArg(SubSeq(calls, 1, Len(calls) - 1), method)

\* C20: current_size and current_scale are what the handler was last told.
\* Every step either delivers size(x) to a window's handler and leaves its
\* current_size at x, or delivers no size() to it and leaves current_size as
\* it was; the same for scale() and current_scale. In particular set_size,
\* which delivers nothing, never changes current_size.
C20_CellReflectsDelivered ==
    [][\A w \in windows \cap windows' :
          LET calls == IF last'.w = w THEN last'.calls ELSE <<>>
              size == LastArg(calls, "size")
              scale == LastArg(calls, "scale")
          IN  /\ last'.kind = "set_size" => calls = <<>>
              /\ props'[w].current_size =
                     IF IsSome(size) THEN Unwrap(size) ELSE props[w].current_size
              /\ props'[w].current_scale =
                     IF IsSome(scale) THEN Unwrap(scale) ELSE props[w].current_scale]_vars

\* A window's size was first set by a ResizeRequested and then changed again
\* by a scale-changed event, and the handler was told of the size it has now.
C20_Witness ==
    /\ last.kind = "scale_factor_changed"
    /\ last.w \in windows
    /\ last.fault = "none"
    /\ IsSome(props[last.w].requested_size)
    /\ Unwrap(last.ret).size = Unwrap(props[last.w].requested_size)
    /\ props[last.w].current_size # Unwrap(last.ret).size
    /\ LastArg(last.calls, "size") = Some(props[last.w].current_size)

\* C21: the drain of the Idle Channel terminates. The step in which the drain
\* finds the channel empty gives control back to the event loop, which goes
\* on to dispatch the next iteration's events.
C21_DrainReturns ==
    [][last'.kind = "try_recv_empty" => phase' = "dispatch"]_vars

\* C24: set_size(s) on the handle of a registered window sets requested_size
\* to s, enqueues exactly one ResizeRequested for that window, and changes
\* nothing else (current_size, current_scale, the Registry, other windows).
C24_SetSizeFrame ==
    [][(last'.kind = "set_size" /\ last'.w \in windows) =>
          /\ last'.fault = "none"
          /\ \E s \in SetSizes :
                 props' = [props EXCEPT ![last'.w].requested_size = Some(s)]
          /\ actions' = Append(actions, [id |-> last'.w, action |-> "ResizeRequested"])
          /\ windows' = windows]_vars

\* The handler method an idle action of the given kind invokes.
IdleCallName(item) ==
    CASE item.kind = "Callback" -> "idle_callback"
      [] item.kind = "Main" -> "main_callback"
      [] OTHER -> "idle"

\* C22: idle actions run in the order they were enqueued, and only after the
\* iteration's protocol events. Every idle step happens in the drain, takes
\* the oldest value off the Idle Channel and leaves the rest in order, and
\* the callback it makes is that value's; every protocol event is dispatched
\* before the iteration's drain begins.
C22_IdleFifoAfterEvents ==
    [][/\ (last'.kind = "idle" =>
              /\ phase = "drain"
              /\ idle # <<>>
              /\ idle' = Tail(idle)
              /\ last'.w = Head(idle).window
              /\ \A i \in 1..Len(last'.calls) :
                     last'.calls[i][1] = IdleCallName(Head(idle)))
       /\ (last'.kind \in EventKinds => phase = "dispatch")]_vars

\* An idle action ran while a later one, of another target, was waiting.
C22_Witness ==
    /\ last.kind = "idle"
    /\ last.calls # <<>>
    /\ idle # <<>>
    /\ Head(idle).window # last.w

\* Steps of threads that call into a handle, and steps of the dispatch thread.
ProducerKinds ==
    {"set_size", "close", "add_idle_callback", "add_idle_token", "run_on_main"}
DispatcherKinds == EventKinds \cup WindowActions \cup {"idle"}

\* C23: handler callbacks are made by the dispatch thread only. A step of
\* set_size, close, add_idle_callback, add_idle_token or run_on_main makes no
\* handler callback; only a protocol event, a deferred action or an idle
\* action makes any; and no callback is made while another one is running.
C23_NoReentrantCallback ==
    /\ (last.kind \in ProducerKinds => last.calls = <<>>)
    /\ (last.calls # <<>> => last.kind \in DispatcherKinds)
    /\ \A i \in 1..Len(last.calls) : last.calls[i][1] # "reentrant"

\* A handler callback called set_size or close on its own window's handle
\* and the message was enqueued without another callback being made.
C23_Witness ==
    /\ last.kind \in DispatcherKinds
    /\ last.calls # <<>>
    /\ last.fault = "none"
    /\ actions # <<>>
    /\ actions[Len(actions)].id = last.w

\* C25: request_close forwards and does nothing else. A request-close event
\* for a registered window whose handler calls nothing back makes exactly one
\* request_close() callback; the Registry, the Action Channel, the Idle
\* Channel, the window cells and the stop signal are as they were.
C25_RequestCloseForwards ==
    [][(last'.kind = "request_close" /\ last'.w \in windows) =>
          /\ last'.fault = "none"
          /\ last'.calls = <<<<"request_close">>>>
          /\ UNCHANGED <<windows, props, actions, idle, stopped, removals,
                         stopEvals, phase>>]_vars

\* A request-close event was delivered to a registered window.
C25_Witness ==
    /\ last.kind = "request_close"
    /\ last.w \in windows
    /\ last.calls = <<<<"request_close">>>>
    /\ actions = <<>>
    /\ stopped = FALSE

\* C26: a run_on_main callback is called with run()'s handler. When the drain
\* takes a run_on_main closure off the Idle Channel the user callback is
\* invoked exactly once, with the handler Application::run was given.
C26_MainGetsRunHandler ==
    [][(last'.kind = "idle" /\ idle # <<>> /\ Head(idle).kind = "Main") =>
          last'.calls = <<<<"main_callback", run_arg>>>>]_vars

\* C27: an Application runs at most once. A run() succeeds only while the
\* shared state is still in its slot; a run() after that panics with
\* 'Can only run an application once' and changes nothing, and the state
\* never comes back.
C27_RunOnce ==
    [][/\ (last'.kind = "run" =>
              IF phase = "setup"
              THEN last'.fault = "none" /\ phase' = "dispatch"
              ELSE /\ last'.fault = "Can only run an application once"
                   /\ UNCHANGED <<windows, props, actions, idle, frames, stopped,
                                  removals, stopEvals, phase, run_arg>>)
       /\ (phase' = "setup" => phase = "setup")]_vars

\* A second run() was attempted and panicked.
C27_Witness ==
    /\ last.kind = "run"
    /\ last.fault = "Can only run an application once"
    /\ phase # "setup"
=============================================================================
